---- MODULE Spec2Model ----
(***************************************************************************)
(* terminus: a terminal viewer for tracing "close" records.                *)
(*   src/src/trace.rs  read_trace_file, Trace, FrameTrace, total_duration  *)
(*   src/src/main.rs   App: the key-event loop and the command interpreter *)
(* Strings are sequences of one-character strings.                         *)
(***************************************************************************)
EXTENDS Integers, Sequences, FiniteSets, TLC

VARIABLES
    pc,               \* position of main: "start", "run", "done", "panic", "error"
    lines,            \* the lines of the trace file
    error,            \* the Err that main returns
    raw_traces,       \* read_trace_file::raw_traces, the decoded lines in file order
    trace_data,       \* State.trace_data
    input,            \* State.input
    input_mode,       \* State.input_mode
    character_index,  \* State.character_index
    frame_state,      \* State.frame_state : Option<FrameState>
    detail_state,     \* State.detail_state : Option<DetailState>
    executed          \* observation of the last exec_command call, if it was the last step

vars == <<pc, lines, error, raw_traces, trace_data, input, input_mode, character_index,
          frame_state, detail_state, executed>>

----------------------------------------------------------------------------
(* Bounds of the model *)

\* longest trace file of SpecLoad, in lines
MaxLines == 5
\* most child records in front of the frame record in the generated files of Spec
MaxChildren == 3

----------------------------------------------------------------------------
(* Option<T> *)

None == [tag |-> "None"]
Some(x) == [tag |-> "Some", val |-> x]

----------------------------------------------------------------------------
(* std::time::Duration: whole seconds and the nanoseconds below one second *)

Duration(s, n) == [secs |-> s, nanos |-> n]

\* Duration + Duration; the nanoseconds carry into the seconds
DurationAdd(a, b) ==
    LET n == a.nanos + b.nanos
    IN  IF n >= 1000000000
        THEN Duration(a.secs + b.secs + 1, n - 1000000000)
        ELSE Duration(a.secs + b.secs, n)

\* Ord for Duration: seconds first, then nanoseconds
DurationLt(a, b) ==
    \/ a.secs < b.secs
    \/ a.secs = b.secs /\ a.nanos < b.nanos

----------------------------------------------------------------------------
(* trace.rs *)

Span(id, name) == [id |-> id, name |-> name]

Fields(busy, idle) == [time_busy |-> busy, time_idle |-> idle]

\* Fields.message is decoded but never read, and is left out
Trace(target, fields, span) == [target |-> target, fields |-> fields, span |-> span]

FrameTrace(trace, child_traces) == [trace |-> trace, child_traces |-> child_traces]

total_duration(t) == DurationAdd(t.fields.time_busy, t.fields.time_idle)

\* the loop of read_trace_file over raw_traces, from record i on
RECURSIVE Aggregate(_, _, _, _)
Aggregate(raw, i, result, child_traces) ==
    IF i > Len(raw)
    THEN result
    ELSE IF raw[i].span.name = "frame"
         THEN Aggregate(raw, i + 1,
                        Append(result, FrameTrace(raw[i], child_traces)), <<>>)
         ELSE Aggregate(raw, i + 1, result, Append(child_traces, raw[i]))

\* mutant: the accumulator is not reset after a frame record
RECURSIVE AggregateKeep(_, _, _, _)
AggregateKeep(raw, i, result, child_traces) ==
    IF i > Len(raw)
    THEN result
    ELSE IF raw[i].span.name = "frame"
         THEN AggregateKeep(raw, i + 1,
                            Append(result, FrameTrace(raw[i], child_traces)),
                            child_traces)
         ELSE AggregateKeep(raw, i + 1, result, Append(child_traces, raw[i]))

read_trace_file_keep(raw) == AggregateKeep(raw, 1, <<>>, <<>>)

\* mutant: a frame record without pending children opens no frame
RECURSIVE AggregateSkip(_, _, _, _)
AggregateSkip(raw, i, result, child_traces) ==
    IF i > Len(raw)
    THEN result
    ELSE IF raw[i].span.name = "frame"
         THEN AggregateSkip(raw, i + 1,
                            IF child_traces = <<>> /\ result # <<>>
                            THEN result
                            ELSE Append(result, FrameTrace(raw[i], child_traces)),
                            <<>>)
         ELSE AggregateSkip(raw, i + 1, result, Append(child_traces, raw[i]))

read_trace_file_skip(raw) == AggregateSkip(raw, 1, <<>>, <<>>)

\* mutant: the records behind the last frame record are given to the last frame
read_trace_file_flush(raw) ==
    LET result == Aggregate(raw, 1, <<>>, <<>>)
        last == IF \E i \in 1..Len(raw) : raw[i].span.name = "frame"
                THEN CHOOSE i \in 1..Len(raw) :
                         /\ raw[i].span.name = "frame"
                         /\ \A j \in (i + 1)..Len(raw) : raw[j].span.name # "frame"
                ELSE 0
    IN  IF result = <<>>
        THEN result
        ELSE [result EXCEPT ![Len(result)].child_traces =
                                @ \o SubSeq(raw, last + 1, Len(raw))]

\* mutant: a frame record is also a child of the frame behind it
RECURSIVE AggregateTwice(_, _, _, _)
AggregateTwice(raw, i, result, child_traces) ==
    IF i > Len(raw)
    THEN result
    ELSE IF raw[i].span.name = "frame"
         THEN AggregateTwice(raw, i + 1,
                             Append(result, FrameTrace(raw[i], child_traces)),
                             <<raw[i]>>)
         ELSE AggregateTwice(raw, i + 1, result, Append(child_traces, raw[i]))

read_trace_file_twice(raw) == AggregateTwice(raw, 1, <<>>, <<>>)

\* read_trace_file, after the lines are decoded
read_trace_file(raw) == Aggregate(raw, 1, <<>>, <<>>)

----------------------------------------------------------------------------
(* Duration::as_millis_f64: secs as f64 * 1000.0 + nanos as f64 / 1e6.       *)
(* An f64 has 53 significant bits.  Below 2^33 ms a step of one nanosecond   *)
(* is more than the distance between neighbouring f64 values, so different   *)
(* durations give different values; the value is kept as the seconds and the *)
(* nanoseconds.  From 2^33 ms on the sum is rounded to the nearest multiple  *)
(* of 2^-19 ms, and from 2^34 ms on of 2^-18 ms (2^18 / 10^6 = 4096 / 15625);*)
(* the value is kept as the seconds [whole] and that multiple [frac].        *)
(* Modelled for durations below 2^35 ms, the two seconds in which 2^33 ms    *)
(* and 2^34 ms fall excepted.                                                *)

F64(whole, frac) == [whole |-> whole, frac |-> frac]

\* n * k / 15625 rounded to the nearest integer (15625 is odd: there are no ties)
RoundScaled(n, k) ==
    LET a == n \div 15625
        p == (n % 15625) * k
    IN  a * k + (p \div 15625) + (IF 2 * (p % 15625) > 15625 THEN 1 ELSE 0)

as_millis_f64(d) ==
    IF d.secs < 8589934
    THEN F64(d.secs, d.nanos)
    ELSE LET k == IF d.secs < 17179869 THEN 8192 ELSE 4096
             r == RoundScaled(d.nanos, k)
         IN  IF r = 64000 * k THEN F64(d.secs + 1, 0) ELSE F64(d.secs, r)

\* a > b on two f64 values
F64Gt(a, b) ==
    \/ a.whole > b.whole
    \/ a.whole = b.whole /\ a.frac > b.frac

----------------------------------------------------------------------------
(* str *)

starts_with(s, p) == Len(s) >= Len(p) /\ SubSeq(s, 1, Len(p)) = p

\* str::split_whitespace: the non-empty runs of characters other than white space
RECURSIVE SplitWs(_, _, _)
SplitWs(s, cur, acc) ==
    IF s = <<>>
    THEN IF cur = <<>> THEN acc ELSE Append(acc, cur)
    ELSE IF Head(s) = " "
         THEN SplitWs(Tail(s), <<>>, IF cur = <<>> THEN acc ELSE Append(acc, cur))
         ELSE SplitWs(Tail(s), Append(cur, Head(s)), acc)

split_whitespace(s) == SplitWs(s, <<>>, <<>>)

\* str::split(".."): the pieces between the matches of "..", found left to right
RECURSIVE SplitDots(_, _, _)
SplitDots(s, cur, acc) ==
    IF s = <<>>
    THEN Append(acc, cur)
    ELSE IF Len(s) >= 2 /\ s[1] = "." /\ s[2] = "."
         THEN SplitDots(Tail(Tail(s)), <<>>, Append(acc, cur))
         ELSE SplitDots(Tail(s), Append(cur, Head(s)), acc)

split_dots(s) == SplitDots(s, <<>>, <<>>)

Digits == <<"0", "1", "2", "3", "4", "5", "6", "7", "8", "9">>

IsDigit(c) == \E i \in 1..10 : Digits[i] = c

DigitVal(c) == (CHOOSE i \in 1..10 : Digits[i] = c) - 1

\* usize::MAX = 2^64 - 1 = 18446744073709551615 (a 64-bit target)
UsizeMaxDigits ==
    <<"1", "8", "4", "4", "6", "7", "4", "4", "0", "7",
      "3", "7", "0", "9", "5", "5", "1", "6", "1", "5">>

RECURSIVE StripZeros(_)
StripZeros(s) ==
    IF s # <<>> /\ Head(s) = "0" THEN StripZeros(Tail(s)) ELSE s

\* a > b for two digit strings of the same length
RECURSIVE DigitsGt(_, _)
DigitsGt(a, b) ==
    /\ a # <<>>
    /\ \/ DigitVal(Head(a)) > DigitVal(Head(b))
       \/ Head(a) = Head(b) /\ DigitsGt(Tail(a), Tail(b))

RECURSIVE DigitsValue(_, _)
DigitsValue(s, acc) ==
    IF s = <<>> THEN acc ELSE DigitsValue(Tail(s), acc * 10 + DigitVal(Head(s)))

Ok(v) == [ok |-> TRUE, val |-> v]
Err == [ok |-> FALSE]

\* str::parse::<usize>: an optional "+", then one or more decimal digits, of a
\* value of at most usize::MAX.  The value is computed for at most 9 digits.
parse_usize(s) ==
    LET d == IF Len(s) > 1 /\ Head(s) = "+" THEN Tail(s) ELSE s
        z == StripZeros(d)
    IN  IF d = <<>> \/ \E i \in 1..Len(d) : ~IsDigit(d[i])
        THEN Err
        ELSE IF Len(z) > 20 \/ (Len(z) = 20 /\ DigitsGt(z, UsizeMaxDigits))
             THEN Err
             ELSE Ok(DigitsValue(z, 0))

----------------------------------------------------------------------------
(* The duration codec of trace.rs: fundu_core's Parser with the units of       *)
(* TimeUnits.  A token is an optional sign, decimal digits and an identifier;  *)
(* fractions, exponents and "inf" are not among the tokens of the model.       *)

\* TimeUnits::get: the unit of an identifier.  The source spells the identifier
\* of the microsecond with the three characters U+00C2, U+00B5, s.
get(identifier) ==
    CASE identifier = <<"n", "s">> -> Some("NanoSecond")
      [] identifier = <<"Â", "µ", "s">> -> Some("MicroSecond")
      [] identifier = <<"m", "s">> -> Some("MilliSecond")
      [] identifier = <<"s">> -> Some("Second")
      [] identifier = <<"m">> -> Some("Minute")
      [] identifier = <<"h">> -> Some("Hour")
      [] identifier = <<"d">> -> Some("Day")
      [] identifier = <<"w">> -> Some("Week")
      [] OTHER -> None

\* the length of a TimeUnit (the Multiplier of every unit of get is 1)
UnitDuration(unit) ==
    CASE unit = "NanoSecond" -> Duration(0, 1)
      [] unit = "MicroSecond" -> Duration(0, 1000)
      [] unit = "MilliSecond" -> Duration(0, 1000000)
      [] unit = "Second" -> Duration(1, 0)
      [] unit = "Minute" -> Duration(60, 0)
      [] unit = "Hour" -> Duration(3600, 0)
      [] unit = "Day" -> Duration(86400, 0)
      [] unit = "Week" -> Duration(604800, 0)

\* n units
Scale(n, unit) ==
    LET f == UnitDuration(unit)
        p == n * f.nanos
    IN  Duration(n * f.secs + (p \div 1000000000), p % 1000000000)

\* the number of digits a string begins with
RECURSIVE LeadingDigits(_)
LeadingDigits(s) ==
    IF s # <<>> /\ IsDigit(Head(s)) THEN 1 + LeadingDigits(Tail(s)) ELSE 0

\* DURATION_PARSER.parse(&buf, &TIME_UNITS, None, None) with the default
\* configuration: a number is required, a missing identifier means seconds,
\* an identifier that get does not know and a negative number are errors
parse_duration(buf) ==
    LET signed == buf # <<>> /\ Head(buf) \in {"+", "-"}
        body == IF signed THEN Tail(buf) ELSE buf
        nd == LeadingDigits(body)
        identifier == SubSeq(body, nd + 1, Len(body))
        unit == IF identifier = <<>> THEN Some("Second") ELSE get(identifier)
    IN  IF nd = 0 \/ unit = None \/ (signed /\ Head(buf) = "-")
        THEN Err
        ELSE Ok(Scale(DigitsValue(SubSeq(body, 1, nd), 0), unit.val))

\* deserialize_duration: the error of the parser becomes the error of the
\* decoder; a parsed duration is never negative, so the unwrap does not panic
deserialize_duration(buf) == parse_duration(buf)

\* serde_json::from_str::<Trace>(&line): the line is a JSON object of the shape
\* of Trace (line.json), and its two durations decode
from_str(line) ==
    LET busy == deserialize_duration(line.time_busy)
        idle == deserialize_duration(line.time_idle)
    IN  IF ~line.json \/ ~busy.ok \/ ~idle.ok
        THEN Err
        ELSE Ok(Trace(line.target, Fields(busy.val, idle.val), line.span))

\* what the first loop of read_trace_file leaves: raw_traces, or the error
\* e.to_string() + &line, of which the text of the line is kept
Decoded(raw) == [ok |-> TRUE, raw_traces |-> raw]
DecodeError(line) == [ok |-> FALSE, line |-> line.text]

\* the first loop of read_trace_file from line i on; lines.flatten() leaves out
\* the lines that cannot be read as UTF-8
RECURSIVE DecodeLines(_, _, _)
DecodeLines(ls, i, raw) ==
    IF i > Len(ls)
    THEN Decoded(raw)
    ELSE IF ~ls[i].utf8
         THEN DecodeLines(ls, i + 1, raw)
         ELSE IF ~from_str(ls[i]).ok
              THEN DecodeError(ls[i])
              ELSE DecodeLines(ls, i + 1, Append(raw, from_str(ls[i]).val))

decode_lines(ls) == DecodeLines(ls, 1, <<>>)

----------------------------------------------------------------------------
(* The trace files of the model.  The line i has the text i and its record   *)
(* the target i, so that every line and every record of a file can be told   *)
(* from the others.                                                          *)

\* the decimal digits of n
RECURSIVE DigitsOf(_)
DigitsOf(n) ==
    IF n < 10 THEN <<Digits[n + 1]>> ELSE DigitsOf(n \div 10) \o <<Digits[(n % 10) + 1]>>

\* the duration token of the magnitude n and the suffix
Token(n, suffix) == DigitsOf(n) \o suffix

Millis(m) == Token(m, <<"m", "s">>)

SpanNames == {"frame", "frames", "calc_tics"}

\* a line: <<span name, time.busy, time.idle>>
Line(i, l) ==
    [text |-> i, utf8 |-> TRUE, json |-> TRUE, target |-> i,
     time_busy |-> l[2], time_idle |-> l[3],
     span |-> Span(IF l[1] = "frame" THEN Some(i) ELSE None, l[1])]

File(ls) == [i \in 1..Len(ls) |-> Line(i, ls[i])]

\* every file of at most MaxLines lines, each of any span name
LoadFiles ==
    UNION { { File([i \in 1..n |-> <<names[i], Millis(i), Millis(0)>>]) :
              names \in [1..n -> SpanNames] } : n \in 0..MaxLines }

----------------------------------------------------------------------------
(* The command lines the model types *)

\* :q
CmdQ == <<":", "q">>

\* :q 
CmdQSpace == <<":", "q", " ">>

\* :f all
CmdFAll == <<":", "f", " ", "a", "l", "l">>

\* :f inspect max
CmdFInspectMax == <<":", "f", " ", "i", "n", "s", "p", "e", "c", "t", " ", "m", "a", "x">>

\* :f inspect
CmdFInspect == <<":", "f", " ", "i", "n", "s", "p", "e", "c", "t">>

\* :f 2..5
CmdF2to5 == <<":", "f", " ", "2", ".", ".", "5">>

\* :f 07..+3
CmdF07toPlus3 == <<":", "f", " ", "0", "7", ".", ".", "+", "3">>

\* :f 10..999
CmdF10to999 == <<":", "f", " ", "1", "0", ".", ".", "9", "9", "9">>

\* :f a..b
CmdFAtoB == <<":", "f", " ", "a", ".", ".", "b">>

\* :f bogus
CmdFBogus == <<":", "f", " ", "b", "o", "g", "u", "s">>

\* :f 1..2..3
CmdF1to2to3 == <<":", "f", " ", "1", ".", ".", "2", ".", ".", "3">>

\* :f 2..5 extra
CmdF2to5Extra == <<":", "f", " ", "2", ".", ".", "5", " ", "e", "x", "t", "r", "a">>

\* :f 2..
CmdF2to == <<":", "f", " ", "2", ".", ".">>

\* :f ..5
CmdFto5 == <<":", "f", " ", ".", ".", "5">>

\* :f -1..3
CmdFMinus1to3 == <<":", "f", " ", "-", "1", ".", ".", "3">>

\* :f 18446744073709551616..1
CmdFOverflow == <<":", "f", " ", "1", "8", "4", "4", "6", "7", "4", "4", "0", "7", "3", "7", "0", "9", "5", "5", "1", "6", "1", "6", ".", ".", "1">>

\* :foo all
CmdFooAll == <<":", "f", "o", "o", " ", "a", "l", "l">>

\* :fx 2..5
CmdFx2to5 == <<":", "f", "x", " ", "2", ".", ".", "5">>

\* :find inspect max
CmdFindInspectMax == <<":", "f", "i", "n", "d", " ", "i", "n", "s", "p", "e", "c", "t", " ", "m", "a", "x">>

\* :x
CmdX == <<":", "x">>

Commands ==
    {CmdQ,
     CmdQSpace,
     CmdFAll,
     CmdFInspectMax,
     CmdFInspect,
     CmdF2to5,
     CmdF07toPlus3,
     CmdF10to999,
     CmdFAtoB,
     CmdFBogus,
     CmdF1to2to3,
     CmdF2to5Extra,
     CmdF2to,
     CmdFto5,
     CmdFMinus1to3,
     CmdFOverflow,
     CmdFooAll,
     CmdFx2to5,
     CmdFindInspectMax,
     CmdX}

\* buffers of at most MaxEdit characters are edited freely with these characters
FreeChars == {":", "q", "f"}

MaxEdit == 3

\* the duration tokens have every magnitude up to MaxMagnitude
MaxMagnitude == 12

Prefixes(s) == { SubSeq(s, 1, n) : n \in 0..Len(s) }

\* the buffer contents the typed characters may produce: the prefixes of the
\* commands, and every short string of FreeChars
Typeable ==
    UNION { Prefixes(c) : c \in Commands }
    \cup UNION { [1..n -> FreeChars] : n \in 0..MaxEdit }

Chars == FreeChars \cup UNION { { c[i] : i \in 1..Len(c) } : c \in Commands }

----------------------------------------------------------------------------
(* The trace files of Spec *)

\* 30 weeks
Weeks30 == Token(30, <<"w">>)

Nanos(n) == Token(n, <<"n", "s">>)

Zero == Token(0, <<"n", "s">>)

Frame(busy, idle) == <<"frame", busy, idle>>

Child(busy, idle) == <<"calc_tics", busy, idle>>

\* frames of 5 ms, 12 ms, 12 ms and 3 ms, with children in front of three of them
FileSpecExample ==
    File(<<Frame(Millis(2), Millis(3)),
           Child(Millis(2), Zero), Child(Millis(3), Millis(4)), Child(Millis(1), Millis(1)),
           Frame(Millis(7), Millis(5)),
           Child(Millis(9), Zero),
           Frame(Millis(12), Zero),
           Child(Millis(1), Zero), Child(Millis(1), Zero),
           Frame(Zero, Millis(3))>>)

\* every frame has a total duration of 0
FileAllZero ==
    File(<<Child(Millis(1), Zero), Frame(Zero, Zero), Child(Millis(2), Zero),
           Child(Millis(2), Zero), Frame(Zero, Zero)>>)

\* two frames of 30 weeks that differ by one nanosecond
FileLongFrames ==
    File(<<Frame(Weeks30, Zero), Child(Millis(1), Zero), Frame(Weeks30, Nanos(1))>>)

\* records, but no frame record
FileNoFrame == File(<<Child(Millis(1), Zero), Child(Millis(2), Zero)>>)

ChildBusy == {Millis(2), Millis(7)}

\* at most MaxChildren children of any of the durations, then their frame
ChildrenFiles ==
    UNION { { File([i \in 1..(n + 1) |->
                      IF i <= n THEN Child(busy[i], Zero) ELSE Frame(Millis(1), Zero)]) :
              busy \in [1..n -> ChildBusy] } : n \in 0..MaxChildren }

TraceFiles ==
    {<<>>, FileNoFrame, FileSpecExample, FileAllZero, FileLongFrames} \cup ChildrenFiles

----------------------------------------------------------------------------
(* main.rs: the command interpreter *)

FrameState(start, end) == [start |-> start, end |-> end]

DetailState(frame_trace) == [frame_trace |-> frame_trace]

\* the place of x in a sequence sorted by descending total duration: behind
\* every element that is not shorter
RECURSIVE InsertDescending(_, _)
InsertDescending(s, x) ==
    IF s = <<>>
    THEN <<x>>
    ELSE IF DurationLt(total_duration(Head(s)), total_duration(x))
         THEN <<x>> \o s
         ELSE <<Head(s)>> \o InsertDescending(Tail(s), x)

RECURSIVE SortDescending(_, _)
SortDescending(s, sorted) ==
    IF s = <<>> THEN sorted
    ELSE SortDescending(Tail(s), InsertDescending(sorted, Head(s)))

\* mutant: x goes in front of the elements of its own duration
RECURSIVE InsertDescendingFirst(_, _)
InsertDescendingFirst(s, x) ==
    IF s = <<>>
    THEN <<x>>
    ELSE IF DurationLt(total_duration(x), total_duration(Head(s)))
         THEN <<Head(s)>> \o InsertDescendingFirst(Tail(s), x)
         ELSE <<x>> \o s

RECURSIVE SortDescendingFirst(_, _)
SortDescendingFirst(s, sorted) ==
    IF s = <<>> THEN sorted
    ELSE SortDescendingFirst(Tail(s), InsertDescendingFirst(sorted, Head(s)))

sort_children_unstable(child_traces) == SortDescendingFirst(child_traces, <<>>)

\* child_traces.sort_by(|a, b| b.total_duration().partial_cmp(&a.total_duration())):
\* a stable sort, longest first
sort_children(child_traces) == SortDescending(child_traces, <<>>)

\* the scan of exec_frame_inspect from frame i on: the index of max_trace
RECURSIVE ScanMax(_, _, _, _)
ScanMax(td, i, max, max_trace) ==
    IF i > Len(td)
    THEN max_trace
    ELSE LET millis == as_millis_f64(total_duration(td[i].trace))
         IN  IF F64Gt(millis, max)
             THEN ScanMax(td, i + 1, millis, i)
             ELSE ScanMax(td, i + 1, max, max_trace)

\* what exec_frame_inspect leaves: whether it panics, and the State after it
Inspected(panic, td, fs, ds) ==
    [panic |-> panic, trace_data |-> td, frame_state |-> fs, detail_state |-> ds]

\* mutant: the children are sorted in the frame itself, and the clone is taken after
exec_frame_inspect_in_place(cmd, td, fs, ds) ==
    IF cmd = Some(<<"m", "a", "x">>)
    THEN IF td = <<>>
         THEN Inspected(TRUE, td, fs, ds)
         ELSE LET k == ScanMax(td, 1, F64(0, 0), 1)
                  sorted == [td EXCEPT ![k].child_traces = sort_children(@)]
              IN  Inspected(FALSE, sorted, fs, Some(DetailState(sorted[k])))
    ELSE Inspected(FALSE, td, fs, ds)

\* mutant: the inspection also resets the filter
exec_frame_inspect_reset(cmd, td, fs, ds) ==
    IF cmd = Some(<<"m", "a", "x">>)
    THEN IF td = <<>>
         THEN Inspected(TRUE, td, fs, ds)
         ELSE LET max_trace == td[ScanMax(td, 1, F64(0, 0), 1)]
              IN  Inspected(FALSE, td, None,
                            Some(DetailState(FrameTrace(max_trace.trace,
                                                        sort_children(max_trace.child_traces)))))
    ELSE Inspected(FALSE, td, fs, ds)

\* exec_frame_inspect(cmd): max_trace is cloned, and the children of the clone
\* are sorted
exec_frame_inspect(cmd, td, fs, ds) ==
    IF cmd = Some(<<"m", "a", "x">>)
    THEN IF td = <<>>
         THEN Inspected(TRUE, td, fs, ds)
         ELSE LET max_trace == td[ScanMax(td, 1, F64(0, 0), 1)]
              IN  Inspected(FALSE, td, fs,
                            Some(DetailState(FrameTrace(max_trace.trace,
                                                        sort_children(max_trace.child_traces)))))
    ELSE Inspected(FALSE, td, fs, ds)

\* what exec_command leaves: "true" and "false" are its results
Outcome(ret, td, fs, ds) ==
    [ret |-> ret, trace_data |-> td, frame_state |-> fs, detail_state |-> ds]

\* mutant: the command is compared with "q"
is_quit_bare(inp) == inp = <<"q">>

\* mutant: the buffer begins with ":q"
is_quit_prefix(inp) == starts_with(inp, <<":", "q">>)

\* self.state.input == ":q"
is_quit(inp) == inp = <<":", "q">>

\* mutant: the token is compared with "All"
is_all_capital(str) == str = <<"A", "l", "l">>

\* str == "all"
is_all(str) == str = <<"a", "l", "l">>

\* mutant: the bounds are stored the wrong way round
frame_range_swapped(lower, upper) == Some(FrameState(upper, lower))

\* Some(FrameState { start: lower, end: upper })
frame_range(lower, upper) == Some(FrameState(lower, upper))

\* exec_command on the buffer inp
exec_command(inp, td, fs, ds) ==
    IF is_quit(inp)
    THEN Outcome("true", td, fs, ds)
    ELSE IF ~starts_with(inp, <<":", "f">>)
    THEN Outcome("false", td, fs, ds)
    ELSE
    LET iter == split_whitespace(inp)
    IN  IF Len(iter) < 2
        THEN Outcome("false", td, fs, ds)
        ELSE IF is_all(iter[2])
        THEN Outcome("false", td, None, ds)
        ELSE IF iter[2] = <<"i", "n", "s", "p", "e", "c", "t">>
        THEN LET r == exec_frame_inspect(IF Len(iter) >= 3 THEN Some(iter[3]) ELSE None,
                                         td, fs, ds)
             IN  Outcome(IF r.panic THEN "panic" ELSE "false",
                         r.trace_data, r.frame_state, r.detail_state)
        ELSE LET s == split_dots(iter[2])
             IN  IF Len(s) # 2
                 THEN Outcome("false", td, fs, ds)
                 ELSE LET lower == parse_usize(s[1])
                          upper == parse_usize(s[2])
                      IN  IF ~lower.ok \/ ~upper.ok
                          THEN Outcome("panic", td, fs, ds)
                          ELSE Outcome("false", td, frame_range(lower.val, upper.val), ds)

\* mutant: the buffer is cleared, the cursor stays
clear_input_keep_cursor(inp, idx) == [input |-> <<>>, character_index |-> idx]

\* the end of exec_command: input.clear() and character_index = 0
clear_input(inp, idx) == [input |-> <<>>, character_index |-> 0]

----------------------------------------------------------------------------
(* main.rs: the edit buffer *)

Min(a, b) == IF a < b THEN a ELSE b

\* mutant: the new position is not clamped
clamp_cursor_none(new_cursor_pos, inp) == new_cursor_pos

\* new_cursor_pos.clamp(0, input.chars().count()), of a usize
clamp_cursor(new_cursor_pos, inp) == Min(new_cursor_pos, Len(inp))

\* String::insert at byte_index(): in front of the character at character_index,
\* or at the end when there is none
InsertChar(inp, idx, c) ==
    LET at == Min(idx, Len(inp))
    IN  SubSeq(inp, 1, at) \o <<c>> \o SubSeq(inp, at + 1, Len(inp))

\* the buffer of delete_char: the characters before and after the deleted one
DeleteChar(inp, idx) == SubSeq(inp, 1, idx - 1) \o SubSeq(inp, idx + 1, Len(inp))

----------------------------------------------------------------------------
(* main and App::run *)

TypeOK ==
    /\ pc \in {"start", "run", "done", "panic", "error"}
    /\ input_mode \in {"Normal", "Editing"}
    /\ character_index \in Nat

InitApp ==
    /\ pc = "start"
    /\ error = None
    /\ raw_traces = <<>>
    /\ trace_data = <<>>
    /\ input = <<>>
    /\ input_mode = "Normal"
    /\ character_index = 0
    /\ frame_state = None
    /\ detail_state = None
    /\ executed = None

Init ==
    /\ lines \in TraceFiles
    /\ InitApp

InitLoad ==
    /\ lines \in LoadFiles
    /\ InitApp

\* main up to the event loop: read_trace_file, whose error main returns, then
\* App::new, which unwraps the span id of every frame
Main ==
    /\ pc = "start"
    /\ LET r == decode_lines(lines)
       IN  IF r.ok
           THEN /\ raw_traces' = r.raw_traces
                /\ trace_data' = read_trace_file(raw_traces')
                /\ pc' = IF \E i \in 1..Len(trace_data') :
                                trace_data'[i].trace.span.id = None
                         THEN "panic"
                         ELSE "run"
                /\ error' = error
           ELSE /\ error' = Some(r.line)
                /\ pc' = "error"
                /\ UNCHANGED <<raw_traces, trace_data>>
    /\ UNCHANGED <<lines, input, input_mode, character_index, frame_state,
                   detail_state, executed>>

\* enter_char; the keys that are pressed keep the buffer in Typeable
EnterChar(c) ==
    /\ input' = InsertChar(input, character_index, c)
    /\ input' \in Typeable
    /\ character_index' = clamp_cursor(character_index + 1, input')

\* Normal mode, the key ':'
NormalColon ==
    /\ pc = "run"
    /\ input_mode = "Normal"
    /\ EnterChar(":")
    /\ input_mode' = "Editing"
    /\ executed' = None
    /\ UNCHANGED <<pc, lines, error, raw_traces, trace_data, frame_state, detail_state>>

\* Normal mode, any other key
NormalOther ==
    /\ pc = "run"
    /\ input_mode = "Normal"
    /\ executed' = None
    /\ UNCHANGED <<pc, lines, error, raw_traces, trace_data, input, input_mode, character_index,
                   frame_state, detail_state>>

\* Editing mode, Enter pressed
EditingEnter ==
    /\ pc = "run"
    /\ input_mode = "Editing"
    /\ LET r == exec_command(input, trace_data, frame_state, detail_state)
       IN  /\ executed' = Some([input |-> input, ret |-> r.ret,
                                frame_state |-> frame_state,
                                detail_state |-> detail_state])
           /\ trace_data' = r.trace_data
           /\ frame_state' = r.frame_state
           /\ detail_state' = r.detail_state
           /\ pc' = CASE r.ret = "true" -> "done"
                      [] r.ret = "panic" -> "panic"
                      [] OTHER -> "run"
           /\ input' = IF r.ret = "false"
                       THEN clear_input(input, character_index).input
                       ELSE input
           /\ character_index' = IF r.ret = "false"
                                 THEN clear_input(input, character_index).character_index
                                 ELSE character_index
    /\ UNCHANGED <<lines, error, raw_traces, input_mode>>

\* Editing mode, a character pressed
EditingChar ==
    /\ pc = "run"
    /\ input_mode = "Editing"
    /\ \E to_insert \in Chars : EnterChar(to_insert)
    /\ executed' = None
    /\ UNCHANGED <<pc, lines, error, raw_traces, trace_data, input_mode, frame_state, detail_state>>

\* Editing mode, Backspace pressed: delete_char
EditingBackspace ==
    /\ pc = "run"
    /\ input_mode = "Editing"
    /\ IF character_index # 0
       THEN /\ input' = DeleteChar(input, character_index)
            /\ character_index' = clamp_cursor(character_index - 1, input')
       ELSE UNCHANGED <<input, character_index>>
    /\ executed' = None
    /\ UNCHANGED <<pc, lines, error, raw_traces, trace_data, input_mode, frame_state, detail_state>>

\* Editing mode, Left pressed: move_cursor_left (the cursor keys are pressed on
\* buffers of at most MaxEdit characters)
EditingLeft ==
    /\ pc = "run"
    /\ input_mode = "Editing"
    /\ Len(input) <= MaxEdit
    /\ character_index' =
           clamp_cursor(IF character_index = 0 THEN 0 ELSE character_index - 1, input)
    /\ executed' = None
    /\ UNCHANGED <<pc, lines, error, raw_traces, trace_data, input, input_mode, frame_state,
                   detail_state>>

\* Editing mode, Right pressed: move_cursor_right (as for Left)
EditingRight ==
    /\ pc = "run"
    /\ input_mode = "Editing"
    /\ Len(input) <= MaxEdit
    /\ character_index' = clamp_cursor(character_index + 1, input)
    /\ executed' = None
    /\ UNCHANGED <<pc, lines, error, raw_traces, trace_data, input, input_mode, frame_state,
                   detail_state>>

\* Editing mode, Esc pressed
EditingEsc ==
    /\ pc = "run"
    /\ input_mode = "Editing"
    /\ input_mode' = "Normal"
    /\ executed' = None
    /\ UNCHANGED <<pc, lines, error, raw_traces, trace_data, input, character_index, frame_state,
                   detail_state>>

\* Editing mode, any other key, or a key event that is no press
EditingOther ==
    /\ pc = "run"
    /\ input_mode = "Editing"
    /\ executed' = None
    /\ UNCHANGED <<pc, lines, error, raw_traces, trace_data, input, input_mode, character_index,
                   frame_state, detail_state>>

Next ==
    \/ Main
    \/ NormalColon
    \/ NormalOther
    \/ EditingEnter
    \/ EditingChar
    \/ EditingBackspace
    \/ EditingLeft
    \/ EditingRight
    \/ EditingEsc
    \/ EditingOther

Spec == Init /\ [][Next]_vars

\* the load alone, on every file of at most MaxLines lines
SpecLoad == InitLoad /\ [][Main]_vars

\* the magnitudes of the duration tokens; 1000 and 2147 carry into the seconds
Magnitudes == (0..MaxMagnitude) \cup {1000, 2147}

\* the suffixes of the duration tokens: the eight units as the trace files
\* spell them, and four more
Suffixes ==
    {<<"n", "s">>, <<"µ", "s">>, <<"m", "s">>, <<"s">>, <<"m">>, <<"h">>, <<"d">>,
     <<"w">>, <<"x", "s">>, <<"u", "s">>, <<"m", "s", "s">>, <<"Â", "µ", "s">>}

\* the duration tokens: a magnitude and a suffix, some with a minus sign
Tokens ==
    { Token(n, suffix) : n \in Magnitudes, suffix \in Suffixes }
        \cup { <<"-">> \o Token(n, suffix) : n \in Magnitudes \ {0}, suffix \in Suffixes }

\* a frame record of the duration busy, then a frame record of 1ms
TokenFiles == { File(<<Frame(busy, Zero), Frame(Millis(1), Zero)>>) : busy \in Tokens }

\* what a line of a file may be: a record that decodes, text that is no JSON
\* object of a record, a record of a duration of an unknown unit, bytes that
\* are no UTF-8 text
LineKinds == {"frame", "calc_tics", "garbled", "bad unit", "unreadable"}

LineOfKind(i, kind) ==
    CASE kind \in SpanNames -> Line(i, <<kind, Millis(i), Zero>>)
      [] kind = "garbled" -> [Line(i, <<"frame", Millis(i), Zero>>) EXCEPT !.json = FALSE]
      [] kind = "bad unit" -> Line(i, <<"frame", Token(5, <<"x", "s">>), Zero>>)
      [] kind = "unreadable" -> [Line(i, <<"frame", Millis(i), Zero>>) EXCEPT !.utf8 = FALSE]

\* every file of at most MaxLines lines, each of any kind
MixedFiles ==
    UNION { { [i \in 1..n |-> LineOfKind(i, kinds[i])] : kinds \in [1..n -> LineKinds] } :
            n \in 0..MaxLines }

InitDecode ==
    /\ lines \in MixedFiles \cup TokenFiles
    /\ InitApp

\* the load alone, on files of lines that do not decode and on the duration
\* tokens
SpecDecode == InitDecode /\ [][Main]_vars

----------------------------------------------------------------------------
(* The aggregation of read_trace_file (SpecLoad) *)

Loaded == pc = "run"

\* the lines of the frame records
FrameLines == { i \in 1..Len(raw_traces) : raw_traces[i].span.name = "frame" }

\* the line of the k-th frame record
FrameLine(k) ==
    CHOOSE i \in FrameLines : Cardinality({ j \in FrameLines : j < i }) = k - 1

\* the line of the frame record before line i, or 0
FrameLineBefore(i) ==
    IF \E j \in FrameLines : j < i
    THEN CHOOSE j \in FrameLines : j < i /\ \A h \in FrameLines : h < i => h <= j
    ELSE 0

\* the line of the frame record behind line i, or the line behind the last one
FrameLineBehind(i) ==
    IF \E j \in FrameLines : j > i
    THEN CHOOSE j \in FrameLines : j > i /\ \A h \in FrameLines : h > i => h >= j
    ELSE Len(raw_traces) + 1

\* the lines whose record is a child of some frame
ChildLines ==
    { i \in 1..Len(raw_traces) :
        \E k \in 1..Len(trace_data) :
            \E c \in 1..Len(trace_data[k].child_traces) :
                trace_data[k].child_traces[c] = raw_traces[i] }

SpanNamesAre(names) ==
    /\ Len(raw_traces) = Len(names)
    /\ \A i \in 1..Len(names) : raw_traces[i].span.name = names[i]

\* C1 as claimed: the children of a frame are the records between its own record
\* and the next frame record (or the end of the input), in arrival order.
C1_ChildrenFollowFrame ==
    Loaded =>
        /\ Len(trace_data) = Cardinality(FrameLines)
        /\ \A k \in 1..Len(trace_data) :
              /\ trace_data[k].trace = raw_traces[FrameLine(k)]
              /\ trace_data[k].child_traces =
                     SubSeq(raw_traces, FrameLine(k) + 1,
                            FrameLineBehind(FrameLine(k)) - 1)

\* C1 amended: the children of a frame are the non-frame records between the
\* previous frame record (or the start of the input) and the frame's own record,
\* in arrival order.
C1_ChildrenPrecedeFrame ==
    Loaded =>
        /\ Len(trace_data) = Cardinality(FrameLines)
        /\ \A k \in 1..Len(trace_data) :
              /\ trace_data[k].trace = raw_traces[FrameLine(k)]
              /\ trace_data[k].child_traces =
                     SubSeq(raw_traces, FrameLineBefore(FrameLine(k)) + 1,
                            FrameLine(k) - 1)

\* the input [A(frame), B, C, A2(frame), D] gives [Frame{A,[]}, Frame{A2,[B,C]}]
C1_Witness ==
    /\ Loaded
    /\ SpanNamesAre(<<"frame", "calc_tics", "calc_tics", "frame", "calc_tics">>)
    /\ trace_data = <<FrameTrace(raw_traces[1], <<>>),
                      FrameTrace(raw_traces[4], <<raw_traces[2], raw_traces[3]>>)>>

\* C2 as claimed: the records in front of the first frame record are the child
\* of no frame.
C2_LeadingRecordsDropped ==
    Loaded =>
        \A i \in 1..Len(raw_traces) :
            (\A j \in FrameLines : i < j) => i \notin ChildLines

\* C2 amended: the records behind the last frame record are the child of no
\* frame, and the records in front of the first frame record are the children of
\* the first frame; [non-frame, frame, non-frame, frame] gives 2 frames of 1
\* child each, record 1 and record 3.
C2_TrailingRecordsDropped ==
    Loaded =>
        /\ \A i \in 1..Len(raw_traces) :
              (\A j \in FrameLines : j < i) => i \notin ChildLines
        /\ FrameLines # {} =>
              trace_data[1].child_traces = SubSeq(raw_traces, 1, FrameLine(1) - 1)
        /\ SpanNamesAre(<<"calc_tics", "frame", "calc_tics", "frame">>) =>
              trace_data = <<FrameTrace(raw_traces[2], <<raw_traces[1]>>),
                             FrameTrace(raw_traces[4], <<raw_traces[3]>>)>>

\* a record in front of the first frame record and one behind the last
C2_Witness ==
    /\ Loaded
    /\ SpanNamesAre(<<"calc_tics", "frame", "calc_tics", "frame", "calc_tics">>)
    /\ ChildLines = {1, 3}

\* C3: one frame per record of span name "frame", in the order of these records;
\* an input without such a record gives no frame.
C3_OneFramePerFrameRecord ==
    Loaded =>
        /\ Len(trace_data) = Cardinality(FrameLines)
        /\ \A k \in 1..Len(trace_data) :
              /\ trace_data[k].trace.span.name = "frame"
              /\ trace_data[k].trace.target = FrameLine(k)
        /\ FrameLines = {} => trace_data = <<>>

\* three frame records among other records, and an input of records without one
C3_Witness ==
    /\ Loaded
    /\ SpanNamesAre(<<"frame", "frame", "frames", "calc_tics", "frame">>)
    /\ Len(trace_data) = 3

----------------------------------------------------------------------------
(* The command interpreter (Spec) *)

\* the last step was exec_command on the buffer cmd
Ran(cmd) == executed.tag = "Some" /\ executed.val.input = cmd

\* exec_command returned false, not by a panic
Returned == executed.tag = "Some" /\ executed.val.ret = "false"

\* the frame that is shown in the detail view
Detail == detail_state.val.frame_trace

\* the index of the frame of the detail view in trace_data
DetailIndex == CHOOSE k \in 1..Len(trace_data) : trace_data[k].trace = Detail.trace

Total(k) == total_duration(trace_data[k].trace)

\* the first frame among those of the longest total duration
FirstLongest ==
    CHOOSE k \in 1..Len(trace_data) :
        /\ \A j \in 1..Len(trace_data) : ~DurationLt(Total(k), Total(j))
        /\ \A j \in 1..(k - 1) : DurationLt(Total(j), Total(k))

\* C4 as claimed: ":f inspect max" on a non-empty frame sequence selects the
\* frame of the maximum total duration, the first one of them on a tie.
C4_SelectsFirstLongest ==
    (Ran(CmdFInspectMax) /\ trace_data # <<>>) =>
        /\ Returned
        /\ detail_state.tag = "Some"
        /\ Detail.trace = trace_data[FirstLongest].trace

\* C5: after ":f inspect max" the children of the detail view are the children of
\* the selected frame, longest first, children of the same total duration in
\* the order they have in the frame.
C5_ChildrenSortedStable ==
    (Ran(CmdFInspectMax) /\ Returned) =>
        /\ detail_state.tag = "Some"
        /\ \E k \in 1..Len(trace_data) : trace_data[k].trace = Detail.trace
        /\ LET sorted == Detail.child_traces
               orig == trace_data[DetailIndex].child_traces
               At(c) == CHOOSE i \in 1..Len(orig) : orig[i] = c
           IN  /\ Len(sorted) = Len(orig)
               /\ \A i \in 1..Len(orig) : \E j \in 1..Len(sorted) : sorted[j] = orig[i]
               /\ \A i, j \in 1..Len(sorted) :
                      i < j =>
                          /\ ~DurationLt(total_duration(sorted[i]),
                                         total_duration(sorted[j]))
                          /\ total_duration(sorted[i]) = total_duration(sorted[j])
                                 => At(sorted[i]) < At(sorted[j])

\* three children, two of the same total duration, and the sort has moved one
C5_Witness ==
    /\ Ran(CmdFInspectMax)
    /\ Returned
    /\ Len(Detail.child_traces) = 3
    /\ Detail.child_traces # trace_data[DetailIndex].child_traces
    /\ total_duration(Detail.child_traces[2]) = total_duration(Detail.child_traces[3])

\* C6 as claimed: ":f inspect max" on an empty frame sequence does not crash and
\* changes nothing.
C6_InspectEmptyIsSilent ==
    (Ran(CmdFInspectMax) /\ trace_data = <<>>) =>
        /\ pc = "run"
        /\ Returned
        /\ frame_state = executed.val.frame_state
        /\ detail_state = executed.val.detail_state

MalformedRanges ==
    {CmdFAtoB, CmdF2to, CmdFto5, CmdFMinus1to3, CmdFBogus, CmdF1to2to3, CmdF2to5Extra}

\* C7 as claimed: ":f" with malformed bounds does not crash and leaves the
\* filter as it was.
C7_MalformedRangeIsSilent ==
    \A cmd \in MalformedRanges :
        Ran(cmd) =>
            /\ pc = "run"
            /\ Returned
            /\ frame_state = executed.val.frame_state

\* C8 as claimed: ":f <lower>..<upper>" sets the filter for all non-negative
\* integers, 2^64 among them.
C8_AnyRangeIsSet ==
    \A cmd \in {CmdF2to5, CmdF10to999, CmdFOverflow} :
        Ran(cmd) =>
            /\ pc = "run"
            /\ Returned
            /\ frame_state.tag = "Some"

\* the commands ":f <lower>..<upper>" of the model whose bounds fit in usize
RangeCases ==
    {<<CmdF2to5, 2, 5>>, <<CmdF07toPlus3, 7, 3>>, <<CmdF10to999, 10, 999>>}

\* C8 amended: ":f <lower>..<upper>" with non-negative integers of at most
\* usize::MAX sets the filter to (lower, upper), whatever it was, and returns
\* false.
C8_UsizeRangeIsSet ==
    \A c \in RangeCases :
        Ran(c[1]) =>
            /\ pc = "run"
            /\ Returned
            /\ frame_state = Some(FrameState(c[2], c[3]))

\* a range is set over another one, the lower bound above the upper one
C8_Witness ==
    /\ Ran(CmdF07toPlus3)
    /\ executed.val.frame_state = Some(FrameState(2, 5))
    /\ frame_state = Some(FrameState(7, 3))

\* C9: ":f all" leaves the filter absent, whatever it was.
C9_AllClearsFilter ==
    Ran(CmdFAll) => pc = "run" /\ Returned /\ frame_state = None

\* ":f all" with a range set
C9_Witness ==
    /\ Ran(CmdFAll)
    /\ executed.val.frame_state = Some(FrameState(2, 5))
    /\ frame_state = None

\* C10: a step that executes ":q" ends the event loop and leaves the filter, the
\* detail view and the frame sequence as they were.
C10_QuitTerminates ==
    [][(pc = "run" /\ input_mode = "Editing" /\ input = CmdQ
           /\ executed'.tag = "Some")
       => (/\ pc' = "done"
           /\ executed'.val.ret = "true"
           /\ UNCHANGED <<frame_state, detail_state, trace_data>>)]_vars

\* ":q" with a range set and a frame in the detail view
C10_Witness ==
    /\ Ran(CmdQ)
    /\ pc = "done"
    /\ frame_state # None
    /\ detail_state # None

----------------------------------------------------------------------------
(* The frame sequence, the buffer and the two views (Spec) *)

\* C11: after any sequence of keys and commands the frame sequence, every frame's
\* record and the order of every frame's children are what the aggregation
\* produced at load.
C11_FramesNeverMutated ==
    pc # "start" => trace_data = read_trace_file(raw_traces)

\* a frame is in the detail view with its children in another order than in the
\* frame sequence, and more commands have been typed since
C11_Witness ==
    /\ pc = "run"
    /\ detail_state.tag = "Some"
    /\ Detail.child_traces # trace_data[DetailIndex].child_traces
    /\ frame_state = Some(FrameState(2, 5))
    /\ executed = None

\* input that is none of the forms of the grammar
OtherInputs == {<<>>, CmdX, CmdQSpace, CmdFooAll, CmdFx2to5, CmdFindInspectMax}

\* C12 as claimed: input that is none of ":q", ":f all", ":f inspect max" and
\* ":f <lower>..<upper>" is ignored: the filter and the detail view stay, and the
\* result is false.
C12_OtherInputIgnored ==
    \A cmd \in OtherInputs :
        Ran(cmd) =>
            /\ pc = "run"
            /\ Returned
            /\ frame_state = executed.val.frame_state
            /\ detail_state = executed.val.detail_state

\* C13: whenever exec_command returns false, the buffer is empty and the cursor
\* is at 0.
C13_BufferClearedOnFalse ==
    Returned => input = <<>> /\ character_index = 0

\* a command without effect, typed to its end, has been executed
C13_Witness ==
    /\ Ran(CmdFInspect)
    /\ Returned
    /\ input = <<>>
    /\ character_index = 0

----------------------------------------------------------------------------
(* The decoding of the lines and of the durations (SpecDecode) *)

\* the line does not decode as a record
FailsToDecode(line) == ~line.utf8 \/ ~from_str(line).ok

\* the lines of the file that do not decode
BadLines == { i \in 1..Len(lines) : FailsToDecode(lines[i]) }

\* the load has failed with an error of the text of the line i, before any
\* frame was made and any key was read
FailedAt(i) ==
    /\ pc = "error"
    /\ error = Some(lines[i].text)
    /\ trace_data = <<>>
    /\ input = <<>>
    /\ executed = None

\* C14 as claimed: if any line of the file fails to decode as a record, the load
\* returns an error of the text of the first such line and no frames, and no
\* command is processed.
C14_LoadAllOrNothing ==
    pc # "start" /\ BadLines # {} =>
        FailedAt(CHOOSE i \in BadLines : \A j \in BadLines : i <= j)

\* the eight units of the duration codec, each with its factor as whole seconds
\* and nanoseconds
Units ==
    {<<<<"n", "s">>, 0, 1>>, <<<<"µ", "s">>, 0, 1000>>, <<<<"m", "s">>, 0, 1000000>>,
     <<<<"s">>, 1, 0>>, <<<<"m">>, 60, 0>>, <<<<"h">>, 3600, 0>>, <<<<"d">>, 86400, 0>>,
     <<<<"w">>, 604800, 0>>}

\* n times the factor of the unit u
Times(n, u) ==
    Duration(n * u[2] + ((n * u[3]) \div 1000000000), (n * u[3]) % 1000000000)

\* the first line of the file has the duration token tok as its time.busy
Decodes(tok) ==
    /\ pc # "start"
    /\ lines \in TokenFiles
    /\ lines[1].time_busy = tok

\* C15 as claimed: the token of a magnitude n and one of the eight suffixes
\* decodes to n times the factor of the suffix.
C15_SuffixScales ==
    \A n \in Magnitudes, u \in Units :
        Decodes(Token(n, u[1])) =>
            /\ pc = "run"
            /\ raw_traces[1].fields.time_busy = Times(n, u)

\* the tokens of a suffix that is none of the eight units, and those of a
\* negative magnitude
RejectedTokens ==
    { tok \in Tokens :
        \/ Head(tok) = "-"
        \/ \A n \in Magnitudes, u \in Units : tok # Token(n, u[1]) }

\* C16 as claimed: a token of an unknown suffix or of a negative magnitude makes
\* the decoding of its line, and with it the load, fail with an error.
C16_UnknownSuffixOrNegativeFails ==
    \A tok \in RejectedTokens : Decodes(tok) => FailedAt(1)

----------------------------------------------------------------------------
(* The conservation of the records (SpecLoad) *)

\* the number of records the frames 1..k hold: one each and their children
RECURSIVE HeldCount(_)
HeldCount(k) ==
    IF k = 0 THEN 0 ELSE HeldCount(k - 1) + 1 + Len(trace_data[k].child_traces)

\* the records the output holds
Held ==
    { trace_data[k].trace : k \in 1..Len(trace_data) }
        \cup UNION { { trace_data[k].child_traces[c] :
                         c \in 1..Len(trace_data[k].child_traces) } :
                     k \in 1..Len(trace_data) }

\* the line of the last frame record, or 0
LastFrameLine == IF FrameLines = {} THEN 0 ELSE FrameLineBefore(Len(raw_traces) + 1)

\* C17: the output holds as many records as the input has up to its last frame
\* record, none of them twice, and none of the records behind the last frame
\* record.
C17_RecordsConserved ==
    Loaded =>
        /\ HeldCount(Len(trace_data)) = LastFrameLine
        /\ Cardinality(Held) = HeldCount(Len(trace_data))
        /\ Held = { raw_traces[i] : i \in 1..LastFrameLine }

\* records before, between and behind two frame records
C17_Witness ==
    /\ Loaded
    /\ SpanNamesAre(<<"calc_tics", "frame", "frames", "frame", "calc_tics">>)
    /\ HeldCount(Len(trace_data)) = 4
    /\ raw_traces[5] \notin Held

----------------------------------------------------------------------------
(* The event loop (Spec) *)

\* the state of the program, without the history of the model
state == <<pc, trace_data, input, input_mode, character_index, frame_state, detail_state>>

\* the step is one of the loop of run, from before it has returned
RunStep == pc = "run"

\* the step processes Enter in Editing mode with the buffer cmd
EnterOn(cmd) ==
    /\ RunStep
    /\ input_mode = "Editing"
    /\ input = cmd
    /\ executed'.tag = "Some"
    /\ executed'.val.input = cmd

\* C18: run returns if and only if Enter is processed in Editing mode with the
\* buffer exactly ":q"; in Normal mode no command is executed, and a key either
\* changes nothing or is ':', which is inserted and switches to Editing mode.
C18_OnlyQuitTerminates ==
    [][/\ (RunStep /\ pc' = "done") <=> EnterOn(CmdQ)
       /\ (RunStep /\ input_mode = "Normal") =>
              /\ executed' = None
              /\ \/ UNCHANGED state
                 \/ /\ input' = InsertChar(input, character_index, ":")
                    /\ character_index' = character_index + 1
                    /\ input_mode' = "Editing"
                    /\ UNCHANGED <<pc, trace_data, frame_state, detail_state>>]_vars

\* run has returned, on ":q" typed as the first command
C18_Witness ==
    /\ pc = "done"
    /\ Ran(CmdQ)
    /\ input_mode = "Editing"
    /\ input = CmdQ
    /\ character_index = 2
    /\ frame_state = None
    /\ detail_state = None

\* C19: the cursor is never in front of the buffer nor behind its end;
\* Backspace at index 0 changes nothing, Left at index 0 and Right at the end
\* leave the index where it is.
C19_CursorInvariant ==
    /\ [](0 <= character_index /\ character_index <= Len(input))
    /\ [][/\ (EditingBackspace /\ character_index = 0) => UNCHANGED state
          /\ (EditingLeft /\ character_index = 0) => UNCHANGED state
          /\ (EditingRight /\ character_index = Len(input)) => UNCHANGED state]_vars

\* the cursor has been moved to the front of a buffer of two characters
C19_Witness ==
    /\ pc = "run"
    /\ input_mode = "Editing"
    /\ Len(input) = 2
    /\ character_index = 0

\* C20: ":f all" and ":f <lower>..<upper>" never change the detail view,
\* ":f inspect max" never changes the filter, and a detail view that is present
\* is never made absent: it is only replaced, by ":f inspect max".
C20_ViewsIndependent ==
    [][/\ (EnterOn(CmdFAll) \/ \E c \in RangeCases : EnterOn(c[1]))
              => detail_state' = detail_state
       /\ EnterOn(CmdFInspectMax) => frame_state' = frame_state
       /\ detail_state # None =>
              /\ detail_state' # None
              /\ detail_state' # detail_state => EnterOn(CmdFInspectMax)]_vars

\* ":f inspect max" with a range set and a frame in the detail view
C20_Witness ==
    /\ Ran(CmdFInspectMax)
    /\ Returned
    /\ frame_state = Some(FrameState(2, 5))
    /\ executed.val.frame_state = frame_state
    /\ executed.val.detail_state # None
    /\ detail_state # None

====
